---- MODULE Spec2Model ----
(***************************************************************************)
(* eos-bios: the boot node's main() and the launch-file verifier           *)
(* loadLaunchFile with its hashers hashFile and hashCodeFiles.             *)
(*                                                                         *)
(* main is one sequential program; pc is its position.  The files on disk, *)
(* the launch manifest, the Bitcoin chain height and the wall clock are    *)
(* the environment.                                                        *)
(***************************************************************************)
EXTENDS Integers, Sequences, FiniteSets, TLC

VARIABLES
    pc,           \* position of main / loadLaunchFile
    files,        \* the file system: path -> [ok, cnt]
    launchFile,   \* what launch.yaml unmarshals to
    btcHeight,    \* height of the Bitcoin chain (external entropy source)
    clock,        \* last value time.Now() returned
    out,          \* loadLaunchFile: out *LaunchData
    snapshotHash, \* loadLaunchFile: snapshotHash
    todo,         \* loadLaunchFile: map entries the range loop has not visited
    cur,          \* loadLaunchFile: name of the current map entry
    codeHash,     \* loadLaunchFile: codeHash
    ret,          \* loadLaunchFile: the returned (out, err)
    launch,       \* main: launch
    stdout,       \* lines printed with fmt.Printf
    stderr,       \* the log.Fatal message, if any
    calls,        \* calls made to the collaborators after loadLaunchFile
    filesRead,    \* paths handed to ioutil.ReadFile so far
    run,          \* number of the current invocation of the program
    history,      \* the calls of the earlier invocations
    verdicts,     \* what loadLaunchFile returned and printed in earlier invocations
    hres          \* results of the hasher applications (hasher specification)

vars == <<pc, files, launchFile, btcHeight, clock, out, snapshotHash, todo, cur,
          codeHash, ret, launch, stdout, stderr, calls, filesRead, run, history,
          verdicts, hres>>

(***************************************************************************)
(* Bounds                                                                  *)
(***************************************************************************)
NumOtherBytes == 1   \* byte values besides ':' that file contents are drawn from
MaxLen == 3          \* longest file content given to the hashers alone
DigestLen == 4       \* bytes of a digest
MaxHeight == 1       \* largest launch_btc_block_height in a manifest
MaxBtcHeight == 1    \* largest height the Bitcoin chain reaches
MaxClock == 1        \* largest value of the wall clock
MaxProducers == 2    \* longest producers list in a manifest
MaxRuns == 2         \* invocations of the program

Colon == 58          \* the byte ':'
Other == Colon + 1

ByteVals == Colon..(Colon + NumOtherBytes)

RECURSIVE SeqsUpTo(_, _)
SeqsUpTo(S, n) ==
    IF n = 0 THEN {<<>>}
    ELSE LET shorter == SeqsUpTo(S, n - 1)
         IN  shorter \cup {Append(s, x) : s \in shorter, x \in S}

Contents == SeqsUpTo(ByteVals, MaxLen)

(***************************************************************************)
(* crypto/sha256 and encoding/hex.  SHA-256 is taken as collision-free:    *)
(* the digest is an injective numbering of the message written to h.       *)
(***************************************************************************)
HexDigits == <<"0", "1", "2", "3", "4", "5", "6", "7",
               "8", "9", "a", "b", "c", "d", "e", "f">>

RECURSIVE Numeral(_)
Numeral(msg) ==
    IF msg = <<>> THEN 0
    ELSE Numeral(SubSeq(msg, 1, Len(msg) - 1)) * (NumOtherBytes + 2)
         + (msg[Len(msg)] - Colon + 1)

RECURSIVE ToBytes(_, _)
ToBytes(n, k) ==
    IF k = 0 THEN <<>> ELSE Append(ToBytes(n \div 256, k - 1), n % 256)

sha256New == <<>>

Write(h, cnt) == h \o cnt

Sum(h) == ToBytes(Numeral(h), DigestLen)

EncodeToString(bytes) ==
    [i \in 1..(2 * Len(bytes)) |->
        LET b == bytes[(i + 1) \div 2]
        IN  HexDigits[(IF i % 2 = 1 THEN b \div 16 ELSE b % 16) + 1]]

(***************************************************************************)
(* ioutil.ReadFile on the modelled file system                             *)
(***************************************************************************)
NoErr == <<>>
Nil == [nil |-> TRUE]
Unreadable == [ok |-> FALSE, cnt |-> <<>>]
File(cnt) == [ok |-> TRUE, cnt |-> cnt]

ReadFile(filename) ==
    IF files[filename].ok
    THEN [cnt |-> files[filename].cnt, err |-> NoErr]
    ELSE [cnt |-> <<>>, err |-> <<"open", filename, "no such file or directory">>]

hashFile(filename) ==
    LET h == sha256New
        r == ReadFile(filename)
    IN  IF r.err # NoErr
        THEN [hash |-> <<>>, err |-> r.err]
        ELSE [hash |-> EncodeToString(Sum(Write(h, r.cnt))), err |-> NoErr]

\* mutant: when the ABI cannot be read, the digest of what was written is returned
hashCodeFilesPartial(code, abi) ==
    LET h  == sha256New
        rc == ReadFile(code)
        h1 == Write(h, rc.cnt)
        h2 == Write(h1, <<Colon>>)
        ra == ReadFile(abi)
        h3 == Write(h2, ra.cnt)
    IN  IF rc.err # NoErr THEN [hash |-> <<>>, err |-> rc.err]
        ELSE IF ra.err # NoErr THEN [hash |-> EncodeToString(Sum(h2)), err |-> ra.err]
        ELSE [hash |-> EncodeToString(Sum(h3)), err |-> NoErr]

\* mutant: the ':' between code and ABI is not written
hashCodeFilesNoDelimiter(code, abi) ==
    LET h  == sha256New
        rc == ReadFile(code)
        h1 == Write(h, rc.cnt)
        ra == ReadFile(abi)
        h3 == Write(h1, ra.cnt)
    IN  IF rc.err # NoErr THEN [hash |-> <<>>, err |-> rc.err]
        ELSE IF ra.err # NoErr THEN [hash |-> <<>>, err |-> ra.err]
        ELSE [hash |-> EncodeToString(Sum(h3)), err |-> NoErr]

hashCodeFiles(code, abi) ==
    LET h  == sha256New
        rc == ReadFile(code)
        h1 == Write(h, rc.cnt)
        h2 == Write(h1, <<Colon>>)
        ra == ReadFile(abi)
        h3 == Write(h2, ra.cnt)
    IN  IF rc.err # NoErr THEN [hash |-> <<>>, err |-> rc.err]
        ELSE IF ra.err # NoErr THEN [hash |-> <<>>, err |-> ra.err]
        ELSE [hash |-> EncodeToString(Sum(h3)), err |-> NoErr]

(***************************************************************************)
(* The local configuration (paths only) and the launch manifest            *)
(***************************************************************************)
ContractNames == {"bios", "system", "msig", "token"}

Config ==
    [OpeningBalances |-> [SnapshotPath |-> "snapshot.csv"],
     Contracts |->
        [BIOS   |-> [CodePath |-> "eosio.bios.wasm",   ABIPath |-> "eosio.bios.abi"],
         System |-> [CodePath |-> "eosio.system.wasm", ABIPath |-> "eosio.system.abi"],
         Msig   |-> [CodePath |-> "eosio.msig.wasm",   ABIPath |-> "eosio.msig.abi"],
         Token  |-> [CodePath |-> "eosio.token.wasm",  ABIPath |-> "eosio.token.abi"]]]

LaunchDataPath == "launch.yaml"

newCC(loc, hash) == [location |-> loc, hash |-> hash]

\* the map literal loadLaunchFile ranges over
CompareMap(o) ==
    [name \in ContractNames |->
        CASE name = "bios"   -> newCC(Config.Contracts.BIOS, o.ContractHashes.BIOS)
          [] name = "system" -> newCC(Config.Contracts.System, o.ContractHashes.System)
          [] name = "msig"   -> newCC(Config.Contracts.Msig, o.ContractHashes.Msig)
          [] name = "token"  -> newCC(Config.Contracts.Token, o.ContractHashes.Token)]

Accounts == {"producera", "producerb"}

\* the artifacts the participants agreed on, and the digests they published
AgreedSnapshot == <<Other, Colon>>
AgreedCode == <<Other>>
AgreedABI == <<Other, Other>>
AlteredSnapshot == <<Other, Other>>
AlteredABI == <<Other, Colon>>

PublishedSnapshotHash == EncodeToString(Sum(AgreedSnapshot))
PublishedContractHash == EncodeToString(Sum(AgreedCode \o <<Colon>> \o AgreedABI))

LaunchFiles ==
    [LaunchBitcoinBlockHeight    : 0..MaxHeight,
     OpeningBalancesSnapshotHash : {PublishedSnapshotHash},
     ContractHashes : {[BIOS   |-> PublishedContractHash,
                        System |-> PublishedContractHash,
                        Msig   |-> PublishedContractHash,
                        Token  |-> PublishedContractHash]},
     Producers : SeqsUpTo(Accounts, MaxProducers)]

SnapshotFiles == {File(AgreedSnapshot), File(AlteredSnapshot), Unreadable}

ContractFiles ==
    {[code |-> File(AgreedCode), abi |-> File(AgreedABI)],
     [code |-> File(AgreedCode), abi |-> File(AlteredABI)],
     [code |-> File(AgreedCode), abi |-> Unreadable]}

FileSystem(snap, cf) ==
    LET m == CompareMap(CHOOSE l \in LaunchFiles : TRUE)
        paths == {Config.OpeningBalances.SnapshotPath}
                 \cup {m[c].location.CodePath : c \in ContractNames}
                 \cup {m[c].location.ABIPath : c \in ContractNames}
    IN  [p \in paths |->
            IF p = Config.OpeningBalances.SnapshotPath THEN snap
            ELSE LET c == CHOOSE c \in ContractNames :
                              p \in {m[c].location.CodePath, m[c].location.ABIPath}
                 IN  IF p = m[c].location.CodePath THEN cf[c].code ELSE cf[c].abi]

ZeroEntropy == [i \in 1..16 |-> 0]

(***************************************************************************)
(* Initial state: the program has not started                              *)
(***************************************************************************)
RunInit ==
    /\ pc = "flags"
    /\ out = Nil
    /\ snapshotHash = <<>>
    /\ todo = {}
    /\ cur = ""
    /\ codeHash = <<>>
    /\ ret = [out |-> Nil, err |-> NoErr]
    /\ launch = Nil
    /\ stdout = <<>>
    /\ stderr = NoErr
    /\ calls = <<>>
    /\ filesRead = {}

Init ==
    /\ RunInit
    /\ \E snap \in SnapshotFiles, cf \in [ContractNames -> ContractFiles] :
          files = FileSystem(snap, cf)
    /\ launchFile \in LaunchFiles
    /\ btcHeight = 0
    /\ clock = 0
    /\ run = 1
    /\ history = <<>>
    /\ verdicts = <<>>
    /\ hres = <<>>

env == <<files, launchFile>>
locals == <<out, snapshotHash, todo, cur, codeHash>>
other == <<run, history, verdicts, hres>>

\* log.Fatalln / log.Fatalf: print and os.Exit(1)
Fatal(msg) == pc' = "fatal" /\ stderr' = msg

\* mutant: the named result out is returned on every path
ReturnNamedResult(o, err) == ret' = [out |-> out, err |-> err] /\ pc' = "launchErr"

\* return from loadLaunchFile to main, line 27
Return(o, err) == ret' = [out |-> o, err |-> err] /\ pc' = "launchErr"

(***************************************************************************)
(* main, lines 16-25                                                       *)
(***************************************************************************)
ParseFlags ==
    /\ pc = "flags"
    /\ \E given \in BOOLEAN :
          IF ~given
          THEN Fatal(<<"missing --launch-data or --local-config">>)
          ELSE pc' = "loadConfig" /\ UNCHANGED stderr
    /\ UNCHANGED <<env, btcHeight, clock, locals, ret, launch, stdout, calls,
                   filesRead, other>>

LoadLocalConfig ==
    /\ pc = "loadConfig"
    /\ \E ok \in BOOLEAN :
          IF ~ok
          THEN Fatal(<<"local config load error:">>)
          ELSE pc' = "llf_read" /\ UNCHANGED stderr
    /\ UNCHANGED <<env, btcHeight, clock, locals, ret, launch, stdout, calls,
                   filesRead, other>>

(***************************************************************************)
(* loadLaunchFile                                                          *)
(***************************************************************************)
\* lines 65-68
LLFReadFile ==
    /\ pc = "llf_read"
    /\ filesRead' = filesRead \cup {LaunchDataPath}
    /\ \E ok \in BOOLEAN :
          IF ~ok
          THEN Return(Nil, <<"open", LaunchDataPath, "no such file or directory">>)
          ELSE pc' = "llf_unmarshal" /\ UNCHANGED ret
    /\ UNCHANGED <<env, btcHeight, clock, locals, launch, stdout, stderr, calls,
                   other>>

\* lines 70-72
LLFUnmarshal ==
    /\ pc = "llf_unmarshal"
    /\ \E ok \in BOOLEAN :
          IF ~ok
          THEN Return(Nil, <<"yaml: unmarshal error">>) /\ UNCHANGED out
          ELSE out' = launchFile /\ pc' = "llf_height" /\ UNCHANGED ret
    /\ UNCHANGED <<env, btcHeight, clock, snapshotHash, todo, cur, codeHash,
                   launch, stdout, stderr, calls, filesRead, other>>

\* mutant: only a negative height is refused
HeightNegative(o) == o.LaunchBitcoinBlockHeight < 0

\* lines 74-76
HeightUnspecified(o) == o.LaunchBitcoinBlockHeight = 0

LLFCheckHeight ==
    /\ pc = "llf_height"
    /\ IF HeightUnspecified(out)
       THEN Return(Nil, <<"launch_btc_block_height unspecified (or 0)">>)
       ELSE pc' = "llf_hashSnapshot" /\ UNCHANGED ret
    /\ UNCHANGED <<env, btcHeight, clock, locals, launch, stdout, stderr, calls,
                   filesRead, other>>

\* lines 79-82
LLFHashSnapshot ==
    /\ pc = "llf_hashSnapshot"
    /\ LET r == hashFile(Config.OpeningBalances.SnapshotPath)
       IN  /\ filesRead' = filesRead \cup {Config.OpeningBalances.SnapshotPath}
           /\ IF r.err # NoErr
              THEN Return(Nil, r.err) /\ UNCHANGED snapshotHash
              ELSE /\ snapshotHash' = r.hash
                   /\ pc' = "llf_printSnapshot"
                   /\ UNCHANGED ret
    /\ UNCHANGED <<env, btcHeight, clock, out, todo, cur, codeHash, launch,
                   stdout, stderr, calls, other>>

\* line 84
LLFPrintSnapshot ==
    /\ pc = "llf_printSnapshot"
    /\ stdout' = Append(stdout,
                    <<"Hash of", <<Config.OpeningBalances.SnapshotPath>>, snapshotHash>>)
    /\ pc' = "llf_cmpSnapshot"
    /\ UNCHANGED <<env, btcHeight, clock, locals, ret, launch, stderr, calls,
                   filesRead, other>>

\* mutant: the comparison is inverted
SnapshotMismatchInverted(hash, o) == hash = o.OpeningBalancesSnapshotHash

\* mutant: the computed hash is stored into the manifest before the comparison
LLFCompareSnapshotStoring ==
    /\ pc = "llf_cmpSnapshot"
    /\ out' = [out EXCEPT !.OpeningBalancesSnapshotHash = snapshotHash]
    /\ todo' = ContractNames
    /\ pc' = "llf_range"
    /\ UNCHANGED <<env, btcHeight, clock, snapshotHash, cur, codeHash, ret,
                   launch, stdout, stderr, calls, filesRead, other>>

\* lines 86-88, and the construction of the map of line 90
SnapshotMismatch(hash, o) == hash # o.OpeningBalancesSnapshotHash

LLFCompareSnapshot ==
    /\ pc = "llf_cmpSnapshot"
    /\ IF SnapshotMismatch(snapshotHash, out)
       THEN Return(Nil, <<"snapshot hash doesn't match launch data">>)
            /\ UNCHANGED todo
       ELSE todo' = DOMAIN CompareMap(out) /\ pc' = "llf_range" /\ UNCHANGED ret
    /\ UNCHANGED <<env, btcHeight, clock, out, snapshotHash, cur, codeHash,
                   launch, stdout, stderr, calls, filesRead, other>>

\* lines 90-95: the range over the map takes the entries in no fixed order
LLFRangeNext ==
    /\ pc = "llf_range"
    /\ todo # {}
    /\ \E name \in todo :
          /\ cur' = name
          /\ todo' = todo \ {name}
    /\ pc' = "llf_hashCode"
    /\ UNCHANGED <<env, btcHeight, clock, out, snapshotHash, codeHash, ret,
                   launch, stdout, stderr, calls, filesRead, other>>

\* lines 97-100
LLFHashCode ==
    /\ pc = "llf_hashCode"
    /\ LET cmp == CompareMap(out)[cur]
           r == hashCodeFiles(cmp.location.CodePath, cmp.location.ABIPath)
       IN  /\ filesRead' = filesRead \cup
                  ({cmp.location.CodePath} \cup
                   (IF files[cmp.location.CodePath].ok
                    THEN {cmp.location.ABIPath} ELSE {}))
           /\ IF r.err # NoErr
              THEN Return(Nil, <<"error hashing contract's code + abi:", cur, r.err>>)
                   /\ UNCHANGED codeHash
              ELSE codeHash' = r.hash /\ pc' = "llf_printCode" /\ UNCHANGED ret
    /\ UNCHANGED <<env, btcHeight, clock, out, snapshotHash, todo, cur, launch,
                   stdout, stderr, calls, other>>

\* mutant: the contract hash is not printed
LLFPrintCodeSilent ==
    /\ pc = "llf_printCode"
    /\ pc' = "llf_cmpCode"
    /\ UNCHANGED <<env, btcHeight, clock, locals, ret, launch, stdout, stderr,
                   calls, filesRead, other>>

\* line 102
LLFPrintCode ==
    /\ pc = "llf_printCode"
    /\ LET cmp == CompareMap(out)[cur]
       IN  stdout' = Append(stdout,
               <<"Hash of", <<cmp.location.CodePath, cmp.location.ABIPath>>, codeHash>>)
    /\ pc' = "llf_cmpCode"
    /\ UNCHANGED <<env, btcHeight, clock, locals, ret, launch, stderr, calls,
                   filesRead, other>>

\* mutant: the computed hash is compared with itself
CodeMismatchSelf(hash, cmp) == hash # hash

\* lines 104-106
CodeMismatch(hash, cmp) == hash # cmp.hash

LLFCompareCode ==
    /\ pc = "llf_cmpCode"
    /\ IF CodeMismatch(codeHash, CompareMap(out)[cur])
       THEN Return(Nil, <<"contract's code hash don't match", cur>>)
       ELSE pc' = "llf_range" /\ UNCHANGED ret
    /\ UNCHANGED <<env, btcHeight, clock, locals, launch, stdout, stderr, calls,
                   filesRead, other>>

\* lines 107-114: the loop is over; nothing else is checked
LLFReturnOut ==
    /\ pc = "llf_range"
    /\ todo = {}
    /\ Return(out, NoErr)
    /\ UNCHANGED <<env, btcHeight, clock, locals, launch, stdout, stderr, calls,
                   filesRead, other>>

(***************************************************************************)
(* main, lines 27-86                                                       *)
(***************************************************************************)
\* a call to a collaborator, with the error it returned (NoErr for none)
Call(fn, args, err) == calls' = Append(calls, [fn |-> fn, args |-> args, err |-> err])

Failure(ok, msg) == IF ok THEN NoErr ELSE msg

\* mutant: the error is logged with log.Println and main goes on
MainLaunchErrLogged ==
    /\ pc = "launchErr"
    /\ stderr' = (IF ret.err # NoErr THEN <<"launch data error:", ret.err>> ELSE stderr)
    /\ launch' = ret.out
    /\ pc' = "wallet"
    /\ UNCHANGED <<env, btcHeight, clock, locals, ret, stdout, calls, filesRead,
                   other>>

\* lines 27-30
MainLaunchErr ==
    /\ pc = "launchErr"
    /\ IF ret.err # NoErr
       THEN Fatal(<<"launch data error:", ret.err>>) /\ UNCHANGED launch
       ELSE launch' = ret.out /\ pc' = "wallet" /\ UNCHANGED stderr
    /\ UNCHANGED <<env, btcHeight, clock, locals, ret, stdout, calls, filesRead,
                   other>>

\* mutant: the error of WalletPublicKeys is dropped
CheckWalletUnchecked ==
    /\ pc = "wallet"
    /\ \E ok \in BOOLEAN :
          Call("WalletPublicKeys", <<>>, Failure(ok, <<"connection refused">>))
    /\ pc' = "snapshot"
    /\ UNCHANGED <<env, btcHeight, clock, locals, ret, launch, stdout, stderr,
                   filesRead, other>>

\* lines 32-62: chainID, api, wallet and signer are built without I/O, then the
\* wallet node is asked for its public keys
CheckWallet ==
    /\ pc = "wallet"
    /\ \E ok \in BOOLEAN :
          /\ Call("WalletPublicKeys", <<>>, Failure(ok, <<"connection refused">>))
          /\ IF ~ok
             THEN Fatal(<<"Wallet node not accessible:">>)
             ELSE pc' = "snapshot" /\ UNCHANGED stderr
    /\ UNCHANGED <<env, btcHeight, clock, locals, ret, launch, stdout, filesRead,
                   other>>

\* lines 65-68
LoadSnapshot ==
    /\ pc = "snapshot"
    /\ filesRead' = filesRead \cup {Config.OpeningBalances.SnapshotPath}
    /\ \E ok \in BOOLEAN :
          /\ Call("NewSnapshot", <<Config.OpeningBalances.SnapshotPath>>,
                  Failure(ok, <<"bad csv">>))
          /\ IF ~ok
             THEN Fatal(<<"Failed loading snapshot csv:">>)
             ELSE pc' = "newBIOS" /\ UNCHANGED stderr
    /\ UNCHANGED <<env, btcHeight, clock, locals, ret, launch, stdout, other>>

\* line 73
StartBIOS ==
    /\ pc = "newBIOS"
    /\ Call("NewBIOS", <<launch>>, NoErr)
    /\ pc' = "shuffle"
    /\ UNCHANGED <<env, btcHeight, clock, locals, ret, launch, stdout, stderr,
                   filesRead, other>>

\* the arguments of line 76
ShuffleArgs(now) == <<ZeroEntropy, now>>

\* lines 76-79; time.Now() returns some time not before the last one observed
ShuffleProducers ==
    /\ pc = "shuffle"
    /\ \E now \in clock..MaxClock, ok \in BOOLEAN :
          /\ clock' = now
          /\ Call("ShuffleProducers", ShuffleArgs(now), Failure(ok, <<"shuffle error">>))
          /\ IF ~ok
             THEN Fatal(<<"Failed shuffling:">>)
             ELSE pc' = "run" /\ UNCHANGED stderr
    /\ UNCHANGED <<env, btcHeight, locals, ret, launch, stdout, filesRead, other>>

\* line 81, the call
RunBIOS ==
    /\ pc = "run"
    /\ Call("Run", <<>>, <<"running">>)
    /\ pc' = "executing"
    /\ UNCHANGED <<env, btcHeight, clock, locals, ret, launch, stdout, stderr,
                   filesRead, other>>

\* mutant: the error of bios.Run is dropped
RunReturnsUnchecked ==
    /\ pc = "executing"
    /\ \E ok \in BOOLEAN :
          calls' = [calls EXCEPT ![Len(calls)].err = Failure(ok, <<"boot error">>)]
    /\ pc' = "printDone"
    /\ UNCHANGED <<env, btcHeight, clock, locals, ret, launch, stdout, stderr,
                   filesRead, other>>

\* lines 81-83, the return
RunReturns ==
    /\ pc = "executing"
    /\ \E ok \in BOOLEAN :
          /\ calls' = [calls EXCEPT ![Len(calls)].err = Failure(ok, <<"boot error">>)]
          /\ IF ~ok
             THEN Fatal(<<"ERROR RUNNING BIOS:">>)
             ELSE pc' = "printDone" /\ UNCHANGED stderr
    /\ UNCHANGED <<env, btcHeight, clock, locals, ret, launch, stdout, filesRead,
                   other>>

\* line 85, then main returns
PrintDone ==
    /\ pc = "printDone"
    /\ \E now \in clock..MaxClock :
          /\ clock' = now
          /\ stdout' = Append(stdout, <<"Done at", <<>>, <<now>>>>)
    /\ pc' = "exit0"
    /\ UNCHANGED <<env, btcHeight, locals, ret, launch, stderr, calls, filesRead,
                   other>>

(***************************************************************************)
(* The environment                                                         *)
(***************************************************************************)
\* the Bitcoin network mines a block; nothing in the program reads the chain
BtcBlock ==
    /\ btcHeight < MaxBtcHeight
    /\ btcHeight' = btcHeight + 1
    /\ UNCHANGED <<pc, env, clock, locals, ret, launch, stdout, stderr, calls,
                   filesRead, other>>

\* loadLaunchFile was called and has returned
Returned ==
    /\ LaunchDataPath \in filesRead
    /\ pc \in {"launchErr", "wallet", "snapshot", "newBIOS", "shuffle", "run",
               "executing", "printDone", "exit0", "fatal"}

\* the outcome of loadLaunchFile: its results and the hash lines it printed
Verdict ==
    [parsed |-> out # Nil,
     out    |-> ret.out,
     err    |-> ret.err,
     hashes |-> {stdout[i] : i \in {k \in DOMAIN stdout : stdout[k][1] = "Hash of"}}]

\* the operator invokes the program again, on the same files and manifest
Restart ==
    /\ pc \in {"fatal", "exit0"}
    /\ run < MaxRuns
    /\ run' = run + 1
    /\ history' = Append(history, calls)
    /\ verdicts' = (IF Returned THEN Append(verdicts, Verdict) ELSE verdicts)
    /\ pc' = "flags"
    /\ out' = Nil
    /\ snapshotHash' = <<>>
    /\ todo' = {}
    /\ cur' = ""
    /\ codeHash' = <<>>
    /\ ret' = [out |-> Nil, err |-> NoErr]
    /\ launch' = Nil
    /\ stdout' = <<>>
    /\ stderr' = NoErr
    /\ calls' = <<>>
    /\ filesRead' = {}
    /\ UNCHANGED <<env, btcHeight, clock, hres>>

Step ==
    \/ ParseFlags
    \/ LoadLocalConfig
    \/ LLFReadFile
    \/ LLFUnmarshal
    \/ LLFCheckHeight
    \/ LLFHashSnapshot
    \/ LLFPrintSnapshot
    \/ LLFCompareSnapshot
    \/ LLFRangeNext
    \/ LLFHashCode
    \/ LLFPrintCode
    \/ LLFCompareCode
    \/ LLFReturnOut
    \/ MainLaunchErr
    \/ CheckWallet
    \/ LoadSnapshot
    \/ StartBIOS
    \/ ShuffleProducers
    \/ RunBIOS
    \/ RunReturns
    \/ PrintDone

Next == Step \/ BtcBlock

Spec == Init /\ [][Next]_vars

\* the program invoked up to MaxRuns times, one invocation after the other
RunsNext == Step \/ BtcBlock \/ Restart

SpecRuns == Init /\ [][RunsNext]_vars

(***************************************************************************)
(* The hashers alone, on files A and B and on the file AB that holds A's   *)
(* bytes followed by B's                                                   *)
(***************************************************************************)
HashFiles == {File(c) : c \in Contents} \cup {Unreadable}

HashInit ==
    /\ RunInit
    /\ \E a \in HashFiles, b \in HashFiles :
          files = [p \in {"A", "B", "AB"} |->
                      IF p = "A" THEN a
                      ELSE IF p = "B" THEN b
                      ELSE IF a.ok /\ b.ok THEN File(a.cnt \o b.cnt)
                      ELSE Unreadable]
    /\ launchFile = CHOOSE l \in LaunchFiles : TRUE
    /\ btcHeight = 0
    /\ clock = 0
    /\ run = 1
    /\ history = <<>>
    /\ verdicts = <<>>
    /\ hres = <<>>

Apply(op, result) ==
    /\ op \notin DOMAIN hres
    /\ hres' = hres @@ (op :> result)
    /\ UNCHANGED <<pc, env, btcHeight, clock, locals, ret, launch, stdout, stderr,
                   calls, filesRead, run, history, verdicts>>

HashCodeAB == Apply("codeAB", hashCodeFiles("A", "B"))

HashCodeBA == Apply("codeBA", hashCodeFiles("B", "A"))

HashFileAB == Apply("fileAB", hashFile("AB"))

HashFileA == Apply("fileA", hashFile("A"))

HashNext == HashCodeAB \/ HashCodeBA \/ HashFileAB \/ HashFileA

HashSpec == HashInit /\ [][HashNext]_vars

(***************************************************************************)
(* Vocabulary of the properties                                            *)
(***************************************************************************)
CalledFns == {calls[i].fn : i \in DOMAIN calls}

Readable(p) == files[p].ok

SnapshotDiffers ==
    /\ Readable(Config.OpeningBalances.SnapshotPath)
    /\ hashFile(Config.OpeningBalances.SnapshotPath).hash
          # launchFile.OpeningBalancesSnapshotHash

ContractDiffers(c) ==
    LET cmp == CompareMap(launchFile)[c]
    IN  /\ Readable(cmp.location.CodePath)
        /\ Readable(cmp.location.ABIPath)
        /\ hashCodeFiles(cmp.location.CodePath, cmp.location.ABIPath).hash # cmp.hash

MismatchedContracts == {c \in ContractNames : ContractDiffers(c)}

AnyMismatch == SnapshotDiffers \/ MismatchedContracts # {}

AllReadable == \A p \in DOMAIN files : Readable(p)

\* positions of main up to and including the test of loadLaunchFile's error
BeforeVerified ==
    {"flags", "loadConfig", "llf_read", "llf_unmarshal", "llf_height",
     "llf_hashSnapshot", "llf_printSnapshot", "llf_cmpSnapshot", "llf_range",
     "llf_hashCode", "llf_printCode", "llf_cmpCode", "launchErr"}

HasDuplicates(producers) ==
    \E i, j \in DOMAIN producers : i # j /\ producers[i] = producers[j]

\* the phases of a run: a reported failure is Failed, whatever runs after it
Phase ==
    IF stderr # NoErr \/ pc = "fatal" THEN "Failed"
    ELSE IF pc \in BeforeVerified THEN "Init"
    ELSE IF pc \in {"wallet", "snapshot", "newBIOS", "shuffle"} THEN "Verified"
    ELSE IF pc = "run" THEN "Shuffled"
    ELSE IF pc = "executing" THEN "Executing"
    ELSE "Completed"

PhaseOrder == <<"Init", "Verified", "Shuffled", "Executing", "Completed">>

FollowsInOrder(p, q) ==
    \E i \in 1..(Len(PhaseOrder) - 1) : PhaseOrder[i] = p /\ PhaseOrder[i + 1] = q

(***************************************************************************)
(* Properties                                                              *)
(***************************************************************************)

\* C1: when the snapshot or one of the four contracts hashes to another value
\* than the manifest declares, the run stays before the end of verification or
\* is failed: loadLaunchFile's result is never accepted, and no collaborator
\* (wallet, snapshot loader, BIOS, shuffle, Run) is ever called.
C1_MismatchStopsRun ==
    AnyMismatch =>
        /\ pc \in BeforeVerified \cup {"fatal"}
        /\ calls = <<>>
        /\ launch = Nil

C1_Witness ==
    /\ pc = "fatal"
    /\ ~SnapshotDiffers
    /\ MismatchedContracts # {}
    /\ Len(stderr) = 2
    /\ stderr[2][1] = "contract's code hash don't match"

\* C2: when two or more contracts mismatch (everything else being readable and
\* matching), loadLaunchFile has hashed all four contracts when it returns, and
\* its error names every mismatched contract.
C2_AllMismatchesReported ==
    (/\ pc = "launchErr"
     /\ out # Nil
     /\ AllReadable
     /\ ~SnapshotDiffers
     /\ launchFile.LaunchBitcoinBlockHeight # 0
     /\ Cardinality(MismatchedContracts) >= 2)
    => /\ \A c \in ContractNames :
             {CompareMap(launchFile)[c].location.CodePath,
              CompareMap(launchFile)[c].location.ABIPath} \subseteq filesRead
       /\ \A c \in MismatchedContracts : \E i \in DOMAIN ret.err : ret.err[i] = c

\* C3: for a parsed manifest with a non-zero height and all files readable,
\* loadLaunchFile returns the manifest without error exactly when the snapshot
\* hash and the four contract hashes all equal the declared values.
C3_ReturnsOutIffAllMatch ==
    (/\ pc = "launchErr"
     /\ out # Nil
     /\ AllReadable
     /\ launchFile.LaunchBitcoinBlockHeight # 0)
    => /\ (ret.err = NoErr) <=> ~AnyMismatch
       /\ ret.err = NoErr => ret.out = launchFile
       /\ ret.err # NoErr => ret.out = Nil

C3_Witness ==
    /\ pc = "launchErr"
    /\ AllReadable
    /\ ret.err = NoErr
    /\ ret.out = launchFile

\* C4: a manifest whose producers list names an account twice makes the run
\* fail before the wallet is contacted and before ShuffleProducers or Run.
C4_DuplicatesStopRun ==
    HasDuplicates(launchFile.Producers) =>
        /\ pc \in BeforeVerified \cup {"fatal"}
        /\ CalledFns \cap {"WalletPublicKeys", "ShuffleProducers", "Run"} = {}

\* C5: with launch_btc_block_height 0 (or missing, which unmarshals to 0) no
\* snapshot or contract file is read or hashed, nothing is printed, no
\* collaborator is called, and loadLaunchFile, when it returns, returns an error.
C5_ZeroHeightStopsBeforeVerification ==
    launchFile.LaunchBitcoinBlockHeight = 0 =>
        /\ pc \in {"flags", "loadConfig", "llf_read", "llf_unmarshal",
                   "llf_height", "launchErr", "fatal"}
        /\ filesRead \subseteq {LaunchDataPath}
        /\ snapshotHash = <<>> /\ codeHash = <<>>
        /\ stdout = <<>>
        /\ calls = <<>>
        /\ pc = "launchErr" => ret.err # NoErr /\ ret.out = Nil

C5_Witness ==
    /\ pc = "fatal"
    /\ stderr = <<"launch data error:", <<"launch_btc_block_height unspecified (or 0)">>>>

\* C6: a failed wallet.WalletPublicKeys is the last call of the run, and the run
\* is failed; bios.Run is called only after a WalletPublicKeys that succeeded.
C6_WalletFailureIsFinal ==
    /\ \A i \in DOMAIN calls :
          (calls[i].fn = "WalletPublicKeys" /\ calls[i].err # NoErr)
              => i = Len(calls) /\ pc = "fatal"
    /\ \A j \in DOMAIN calls :
          calls[j].fn = "Run"
              => \E i \in 1..(j - 1) :
                    calls[i].fn = "WalletPublicKeys" /\ calls[i].err = NoErr

C6_Witness ==
    /\ pc = "fatal"
    /\ calls # <<>>
    /\ calls[Len(calls)].fn = "WalletPublicKeys"
    /\ calls[Len(calls)].err # NoErr

\* C7: every step keeps the phase or moves it to the next one of Init,
\* Verified, Shuffled, Executing, Completed, or to Failed; from Failed and
\* Completed the phase never changes and no further call is made.
C7_PhasesOnlyForward ==
    [][/\ \/ Phase' = Phase
          \/ FollowsInOrder(Phase, Phase')
          \/ Phase' = "Failed" /\ Phase # "Completed"
       /\ Phase \in {"Failed", "Completed"} => Phase' = Phase /\ calls' = calls]_vars

C7_Witness ==
    /\ Phase = "Completed"
    /\ pc = "exit0"
    /\ CalledFns = {"WalletPublicKeys", "NewSnapshot", "NewBIOS", "ShuffleProducers", "Run"}

\* C8: ShuffleProducers is called only in a state where the Bitcoin chain has
\* reached the manifest's launch_btc_block_height.
C8_ShuffleAfterCheckpoint ==
    [][ShuffleProducers => btcHeight >= launch.LaunchBitcoinBlockHeight]_vars

\* C9: all invocations of the program on the same manifest pass the same
\* arguments (entropy bytes and timestamp) to ShuffleProducers.
ShuffleCalls ==
    {calls[i] : i \in {k \in DOMAIN calls : calls[k].fn = "ShuffleProducers"}}
    \cup UNION {{history[r][i] :
                    i \in {k \in DOMAIN history[r] :
                              history[r][k].fn = "ShuffleProducers"}} :
                r \in DOMAIN history}

C9_SameShuffleArguments ==
    \A c1, c2 \in ShuffleCalls : c1.args = c2.args

\* C10 as stated: for all readable A and B, hashCodeFiles(A, B) differs from
\* hashCodeFiles(B, A) and from the hash of A followed by B without delimiter.
HashersApplied ==
    /\ {"codeAB", "codeBA", "fileAB"} \subseteq DOMAIN hres
    /\ Readable("A") /\ Readable("B")

SnapshotHashComputed ==
    /\ Config.OpeningBalances.SnapshotPath \in filesRead
    /\ Readable(Config.OpeningBalances.SnapshotPath)

CodeHashComputed(c) ==
    LET loc == CompareMap(launchFile)[c].location
    IN  /\ loc.ABIPath \in filesRead
        /\ Readable(loc.CodePath)
        /\ Readable(loc.ABIPath)

Printed(paths, hash) ==
    \E i \in DOMAIN stdout : stdout[i] = <<"Hash of", paths, hash>>

C11_ComputedHashesPrinted ==
    /\ (SnapshotHashComputed /\ pc # "llf_printSnapshot")
          => Printed(<<Config.OpeningBalances.SnapshotPath>>,
                     hashFile(Config.OpeningBalances.SnapshotPath).hash)
    /\ \A c \in ContractNames :
          (CodeHashComputed(c) /\ ~(pc = "llf_printCode" /\ cur = c))
              => LET loc == CompareMap(launchFile)[c].location
                 IN  Printed(<<loc.CodePath, loc.ABIPath>>,
                             hashCodeFiles(loc.CodePath, loc.ABIPath).hash)

C11_Witness ==
    /\ pc = "launchErr"
    /\ ret.err = <<"contract's code hash don't match", cur>>
    /\ CodeHashComputed(cur)
    /\ Printed(<<CompareMap(launchFile)[cur].location.CodePath,
                 CompareMap(launchFile)[cur].location.ABIPath>>, codeHash)
    /\ Len(stdout) >= 3

\* C13: a hasher given an unreadable file returns the empty string and an
\* error; hashCodeFiles does so too when the code is readable and the ABI is not.
C13_NoPartialHash ==
    /\ ("fileA" \in DOMAIN hres /\ ~Readable("A"))
          => hres["fileA"].hash = <<>> /\ hres["fileA"].err # NoErr
    /\ ("fileAB" \in DOMAIN hres /\ ~Readable("AB"))
          => hres["fileAB"].hash = <<>> /\ hres["fileAB"].err # NoErr
    /\ ("codeAB" \in DOMAIN hres /\ (~Readable("A") \/ ~Readable("B")))
          => hres["codeAB"].hash = <<>> /\ hres["codeAB"].err # NoErr
    /\ ("codeBA" \in DOMAIN hres /\ (~Readable("A") \/ ~Readable("B")))
          => hres["codeBA"].hash = <<>> /\ hres["codeBA"].err # NoErr

C13_Witness ==
    /\ "codeAB" \in DOMAIN hres
    /\ Readable("A") /\ files["A"].cnt # <<>>
    /\ ~Readable("B")
    /\ hres["codeAB"] = [hash |-> <<>>,
                         err |-> <<"open", "B", "no such file or directory">>]

\* C14: the "Done" line is printed only in a run without a reported failure in
\* which loadLaunchFile returned no error and WalletPublicKeys, NewSnapshot,
\* NewBIOS, ShuffleProducers and Run were all called and returned no error; a
\* run that reported a failure never prints it.
DoneReported == \E i \in DOMAIN stdout : stdout[i][1] = "Done at"

C14_DoneOnlyAfterAllSucceeded ==
    /\ DoneReported =>
          /\ stderr = NoErr
          /\ pc = "exit0"
          /\ ret.err = NoErr
          /\ launch = launchFile
          /\ Len(calls) = 5
          /\ <<calls[1].fn, calls[2].fn, calls[3].fn, calls[4].fn, calls[5].fn>>
                = <<"WalletPublicKeys", "NewSnapshot", "NewBIOS",
                    "ShuffleProducers", "Run">>
          /\ \A i \in DOMAIN calls : calls[i].err = NoErr
    /\ (stderr # NoErr \/ pc = "fatal") => ~DoneReported
    /\ pc = "exit0" => DoneReported

C14_Witness ==
    /\ DoneReported
    /\ pc = "exit0"
    /\ stderr = NoErr

\* C15: once the manifest is unmarshalled, no step changes out or the manifest
\* file: all fields, the producers list and its order included, stay as parsed.
C15_ManifestNeverWritten ==
    [][/\ launchFile' = launchFile
       /\ out # Nil => out' = out /\ out = launchFile]_vars

C15_Witness ==
    /\ pc = "launchErr"
    /\ ret.err = NoErr
    /\ out = launchFile
    /\ Len(out.Producers) = MaxProducers
    /\ todo = {}

\* C17: loadLaunchFile returns either (nil, error) or (manifest, no error), and
\* main holds a manifest only if every check was made and passed.
C17_NoManifestWithError ==
    /\ pc = "launchErr" =>
          /\ ret.err # NoErr => ret.out = Nil
          /\ ret.err = NoErr => ret.out = launchFile
    /\ launch # Nil =>
          /\ launch = launchFile
          /\ ret.err = NoErr
          /\ AllReadable
          /\ ~AnyMismatch
          /\ launchFile.LaunchBitcoinBlockHeight # 0

C17_Witness ==
    /\ pc = "launchErr"
    /\ out # Nil
    /\ ret.err # NoErr
    /\ ret.out = Nil
    /\ snapshotHash # <<>>

\* C12: two executions of loadLaunchFile that both parsed the same manifest, on
\* the same readable files, return the same result and error and print the same
\* set of hash lines.
C12_SameVerdict ==
    \A i \in DOMAIN verdicts :
        (Returned /\ AllReadable /\ Verdict.parsed /\ verdicts[i].parsed)
            => verdicts[i] = Verdict

\* C16: two (code, ABI) pairs with different contents never hash to the same
\* digest; stated for the pairs (A, B) and (B, A).
C16_InjectiveOnPairs ==
    (HashersApplied /\ files["A"].cnt # files["B"].cnt)
        => hres["codeAB"].hash # hres["codeBA"].hash

====
